---- MODULE Spec2Model ----
(***************************************************************************)
(* A model of data_preprocess: the reconciliation driver of preprocess.py  *)
(* (get_related_trade_records and its helpers) and the session windows of  *)
(* generate_bars.py.                                                       *)
(*                                                                         *)
(* Calendar dates are proleptic Gregorian ordinals (date.toordinal(), day  *)
(* 1 = 0001-01-01); naive and aware datetimes are minutes, ordinal * 1440  *)
(* + minute of the day, an aware datetime being its UTC instant.           *)
(***************************************************************************)
EXTENDS Integers, Sequences, FiniteSets, TLC

VARIABLES
    \* a helper called on its own
    call,             \* the pure function under call and its arguments
    ret,              \* what the call returned or raised (None before the call)
    kept,             \* the probe instants the session filter of generate_min_bars keeps
    \* get_related_trade_records
    reference_df,     \* the rows of the reference file: date, open, high, low, close
    input_folder,     \* file name -> the content of the csv file
    output_folder,    \* YYYYMMDD -> the rows of <YYYYMMDD>.parquet, for the files that exist
    run,              \* which call of get_related_trade_records this is
    row,              \* the position of iterrows in reference_df
    pc,               \* where the call is: row, read, loop, write, done, raised
    error,            \* the exception that ended the call, "" while there is none
    related_files,    \* the related files still to read
    candidate_data,   \* the filtered chunks read so far
    full_data,        \* the concatenated candidate rows
    groups_left,      \* the instrument ids the loop has not visited yet, ascending
    max_instrument_id,
    max_ohlc,
    candidate_volume, \* <<inst_id, volume_>>, each Unset while it is None
    saved_info_1,     \* <<open_, high_, low_, close_, volume_>>, <<>> while unbound
    saved_info_2,
    output_records,
    scored,           \* what the loop computed for each group it visited
    log,              \* the lines printed, as records
    work,             \* the steps taken, as [run, date, step] records
    \* uniform_time_column
    source_folder,    \* file name -> the rows of the file, for the files that exist
    original,         \* source_folder as it was before the first call
    attempt,          \* which call of uniform_time_column this is
    listing,          \* the names of os.listdir from the current one on
    upc,              \* where the call is: list, next, open, write, rename, done, crashed
    new_df            \* df after line 62: the current file's rows, ts_event converted

callVars == <<call, ret, kept>>

driverVars ==
    <<reference_df, input_folder, output_folder, run, row, pc, error, related_files,
      candidate_data, full_data, groups_left, max_instrument_id, max_ohlc,
      candidate_volume, saved_info_1, saved_info_2, output_records, scored,
      log, work>>

uniVars == <<source_folder, original, attempt, listing, upc, new_df>>

vars == <<callVars, driverVars, uniVars>>

\* The None of candidate_volume = [None, None] (ids and volumes are positive).
Unset == -1

\* The driver before it is called, while a helper is called on its own.
DriverIdle ==
    /\ reference_df = <<>>
    /\ input_folder = <<>>
    /\ output_folder = <<>>
    /\ run = 0
    /\ row = 0
    /\ pc = "idle"
    /\ error = ""
    /\ related_files = <<>>
    /\ candidate_data = <<>>
    /\ full_data = <<>>
    /\ groups_left = <<>>
    /\ max_instrument_id = Unset
    /\ max_ohlc = 0
    /\ candidate_volume = <<Unset, Unset>>
    /\ saved_info_1 = <<>>
    /\ saved_info_2 = <<>>
    /\ output_records = <<>>
    /\ scored = <<>>
    /\ log = {}
    /\ work = {}

\* uniform_time_column before it is called.
UniformIdle ==
    /\ source_folder = <<>>
    /\ original = <<>>
    /\ attempt = 0
    /\ listing = <<>>
    /\ upc = "idle"
    /\ new_df = <<>>

\* A call that has not returned: every result is a record with a status.
None == [status |-> "none"]

(***************************************************************************)
(* datetime.date arithmetic                                                *)
(***************************************************************************)
MinutesPerDay == 1440

IsLeap(y) == (y % 4 = 0) /\ ((y % 100 # 0) \/ (y % 400 = 0))

DaysInMonth(y, m) ==
    IF m = 2 THEN (IF IsLeap(y) THEN 29 ELSE 28)
    ELSE IF m \in {4, 6, 9, 11} THEN 30 ELSE 31

DaysBeforeYear(y) ==
    (y - 1) * 365 + ((y - 1) \div 4) - ((y - 1) \div 100) + ((y - 1) \div 400)

RECURSIVE DaysBeforeMonth(_, _)
DaysBeforeMonth(y, m) ==
    IF m = 1 THEN 0 ELSE DaysBeforeMonth(y, m - 1) + DaysInMonth(y, m - 1)

\* date(y, m, d).toordinal()
Ordinal(y, m, d) == DaysBeforeYear(y) + DaysBeforeMonth(y, m) + d

\* The years the model's dates fall in.
Years == 2016..2026

YearOf(ord) ==
    CHOOSE y \in Years : DaysBeforeYear(y) < ord /\ ord <= DaysBeforeYear(y + 1)

MonthOf(ord) ==
    LET y == YearOf(ord)
        n == ord - DaysBeforeYear(y)
    IN  CHOOSE m \in 1..12 :
            DaysBeforeMonth(y, m) < n /\ n <= DaysBeforeMonth(y, m) + DaysInMonth(y, m)

DayOf(ord) ==
    LET y == YearOf(ord)
    IN  ord - DaysBeforeYear(y) - DaysBeforeMonth(y, MonthOf(ord))

\* date.weekday(): Monday = 0 .. Sunday = 6 (ordinal 1 was a Monday).
Weekday(ord) == (ord + 6) % 7

\* datetime.combine(date, time(hh, mm)): a naive datetime.
Combine(ord, hh, mm) == ord * MinutesPerDay + hh * 60 + mm

\* datetime.date() of a datetime.
DateOf(dt) == dt \div MinutesPerDay

(***************************************************************************)
(* pytz.timezone("America/New_York"): the US rule in force since 2007.     *)
(* Daylight time runs from 02:00 EST on the second Sunday of March to      *)
(* 02:00 EDT on the first Sunday of November.                              *)
(***************************************************************************)
EST == -300
EDT == -240

\* The n-th Sunday of month m of year y, as an ordinal.
NthSunday(y, m, n) ==
    LET first == Ordinal(y, m, 1)
        toSunday == (6 - Weekday(first)) % 7
    IN  first + toSunday + 7 * (n - 1)

\* The UTC instants of the two transitions of year y.
DstStartUTC(y) == Combine(NthSunday(y, 3, 2), 2, 0) - EST
DstEndUTC(y) == Combine(NthSunday(y, 11, 1), 2, 0) - EDT

\* tzinfo.utcoffset of a UTC instant (what astimezone(NY) applies).
OffsetAtUTC(utc) ==
    LET y == YearOf(DateOf(utc))
    IN  IF DstStartUTC(y) <= utc /\ utc < DstEndUTC(y) THEN EDT ELSE EST

\* NY.localize(naive) with is_dst=False: the one offset under which the wall
\* clock reads naive; an ambiguous or non-existent wall time takes standard time.
LocalizeOffset(naive) ==
    LET possible == {off \in {EST, EDT} : OffsetAtUTC(naive - off) = off}
    IN  IF possible = {EDT} THEN EDT ELSE EST

\* NY.localize(naive): the aware datetime, as its UTC instant.
Localize(naive) == naive - LocalizeOffset(naive)

\* aware.astimezone(NY): the New York wall clock of a UTC instant.
WallClockNY(utc) == utc + OffsetAtUTC(utc)

(***************************************************************************)
(* get_utc_start_end and get_time_range                                    *)
(***************************************************************************)
\* The reference dates the driver accepts (preprocess.py:231-232).
FirstDate == Ordinal(2017, 4, 3)
LastDate == Ordinal(2025, 9, 28)
Dates == FirstDate..LastDate

\* A driver that ignores daylight time: both boundaries converted at UTC-5.
get_utc_start_end_fixed_offset(date) ==
    [status |-> "returned",
     start |-> Combine(date - 1, 18, 0) - EST,
     end |-> Combine(date, 17, 0) - EST]

\* A window that opens a day too early.
get_utc_start_end_two_days(date) ==
    [status |-> "returned",
     start |-> Localize(Combine(date - 2, 18, 0)),
     end |-> Localize(Combine(date, 17, 0))]

get_utc_start_end(date) ==
    LET ny_start == Localize(Combine(date - 1, 18, 0))
        ny_end == Localize(Combine(date, 17, 0))
    IN  [status |-> "returned", start |-> ny_start, end |-> ny_end]

TimeTypes == {"electronic", "regular", "overnight"}

\* An electronic session opened on the target date instead of the day before.
get_time_range_same_day(time_type, target_date) ==
    IF time_type = "electronic" THEN
        [status |-> "returned",
         start |-> Localize(Combine(target_date, 18, 0)),
         end |-> Localize(Combine(target_date, 16, 15))]
    ELSE IF time_type = "regular" THEN
        [status |-> "returned",
         start |-> Localize(Combine(target_date, 9, 30)),
         end |-> Localize(Combine(target_date, 16, 15))]
    ELSE [status |-> "raised", error |-> "UnboundLocalError", names |-> "ny_start"]

\* Neither branch assigns ny_start for another time_type: the return raises
\* UnboundLocalError, whose message names the local variable.
get_time_range(time_type, target_date) ==
    IF time_type = "electronic" THEN
        [status |-> "returned",
         start |-> Localize(Combine(target_date - 1, 18, 0)),
         end |-> Localize(Combine(target_date, 16, 15))]
    ELSE IF time_type = "regular" THEN
        [status |-> "returned",
         start |-> Localize(Combine(target_date, 9, 30)),
         end |-> Localize(Combine(target_date, 16, 15))]
    ELSE [status |-> "raised", error |-> "UnboundLocalError", names |-> "ny_start"]

\* df[(df["ts_event"] >= start) & (df["ts_event"] < end)]
InSession(ts, start, end) == ts >= start /\ ts < end

Raised(r) == r.status = "raised"
Returned(r) == r.status = "returned"

InitWindow ==
    /\ call \in [fn : {"get_utc_start_end"}, date : Dates]
            \cup [fn : {"get_time_range"}, time_type : TimeTypes, date : Dates]
    /\ ret = None
    /\ kept = {}
    /\ DriverIdle
    /\ UniformIdle

CallGetUtcStartEnd ==
    /\ ret = None
    /\ call.fn = "get_utc_start_end"
    /\ ret' = get_utc_start_end(call.date)
    /\ UNCHANGED <<call, kept, driverVars, uniVars>>

CallGetTimeRange ==
    /\ ret = None
    /\ call.fn = "get_time_range"
    /\ ret' = get_time_range(call.time_type, call.date)
    /\ UNCHANGED <<call, kept, driverVars, uniVars>>

\* generate_min_bars, lines 136-137: the rows around the two boundaries.
Probes(w) == {w.start - 1, w.start, w.end - 1, w.end}

FilterSession ==
    /\ Returned(ret)
    /\ call.fn = "get_time_range"
    /\ kept = {}
    /\ kept' = {ts \in Probes(ret) : InSession(ts, ret.start, ret.end)}
    /\ UNCHANGED <<call, ret, driverVars, uniVars>>

NextWindow == CallGetUtcStartEnd \/ CallGetTimeRange \/ FilterSession

SpecWindow == InitWindow /\ [][NextWindow]_vars

(***************************************************************************)
(* Claims about the windows, checked under SpecWindow                      *)
(***************************************************************************)
\* A literal instant, YYYY-MM-DD hh:mm UTC.
Instant(y, m, d, hh, mm) == Combine(Ordinal(y, m, d), hh, mm)

\* The offset a boundary was converted with is the one in force at it.
OffsetInForce(naive, utc) ==
    /\ WallClockNY(utc) = naive
    /\ naive - utc = (IF DstStartUTC(YearOf(DateOf(utc))) <= utc
                         /\ utc < DstEndUTC(YearOf(DateOf(utc)))
                      THEN -240 ELSE -300)

\* C7: get_time_range('electronic', d) is the range from 18:00 New York time
\* on d-1 to 16:15 New York time on d, get_time_range('regular', d) the range
\* from 09:30 to 16:15 New York time on d, each boundary converted with the
\* offset in force at it; for 2018-04-02 the electronic window is
\* [2018-04-01T22:00Z, 2018-04-02T20:15Z); the filter keeps the start and
\* drops the end.
C7_SessionWindow ==
    (call.fn = "get_time_range" /\ Returned(ret)) =>
        /\ call.time_type \in {"electronic", "regular"}
        /\ call.time_type = "electronic" =>
              OffsetInForce(Combine(call.date - 1, 18, 0), ret.start)
        /\ call.time_type = "regular" =>
              OffsetInForce(Combine(call.date, 9, 30), ret.start)
        /\ OffsetInForce(Combine(call.date, 16, 15), ret.end)
        /\ (call.time_type = "electronic" /\ call.date = Ordinal(2018, 4, 2)) =>
              /\ ret.start = Instant(2018, 4, 1, 22, 0)
              /\ ret.end = Instant(2018, 4, 2, 20, 15)
        /\ kept # {} => kept = {ret.start, ret.end - 1}

C7_Witness ==
    /\ call.fn = "get_time_range"
    /\ call.time_type = "electronic"
    /\ call.date = Ordinal(2018, 4, 2)
    /\ Returned(ret)
    /\ ret.start \in kept

\* C8: get_utc_start_end(d) is (18:00 New York time on d-1, 17:00 New York
\* time on d) in UTC, each boundary converted with the offset in force at it;
\* for 2018-04-02 it is (2018-04-01 22:00 UTC, 2018-04-02 21:00 UTC); the
\* start is strictly before the end.
C8_FullDayWindow ==
    (call.fn = "get_utc_start_end" /\ Returned(ret)) =>
        /\ OffsetInForce(Combine(call.date - 1, 18, 0), ret.start)
        /\ OffsetInForce(Combine(call.date, 17, 0), ret.end)
        /\ call.date = Ordinal(2018, 4, 2) =>
              /\ ret.start = Instant(2018, 4, 1, 22, 0)
              /\ ret.end = Instant(2018, 4, 2, 21, 0)
        /\ ret.start < ret.end

C8_Witness ==
    /\ call.fn = "get_utc_start_end"
    /\ call.date = Ordinal(2018, 4, 2)
    /\ Returned(ret)
    /\ ret.end - ret.start = 23 * 60

(***************************************************************************)
(* parse_file_dates and find_related_files.  A file name is the sequence   *)
(* of its characters.                                                      *)
(***************************************************************************)
Digits == {"0", "1", "2", "3", "4", "5", "6", "7", "8", "9"}

DigitVal(c) ==
    CASE c = "0" -> 0 [] c = "1" -> 1 [] c = "2" -> 2 [] c = "3" -> 3
      [] c = "4" -> 4 [] c = "5" -> 5 [] c = "6" -> 6 [] c = "7" -> 7
      [] c = "8" -> 8 [] c = "9" -> 9

\* \d{8} matches at position i of the name.
EightDigitsAt(filename, i) ==
    /\ i >= 1
    /\ i + 7 <= Len(filename)
    /\ \A k \in i..(i + 7) : filename[k] \in Digits

\* (\d{8})-(\d{8}) matches at position i of the name.
RangeAt(filename, i) ==
    /\ EightDigitsAt(filename, i)
    /\ i + 8 <= Len(filename)
    /\ filename[i + 8] = "-"
    /\ EightDigitsAt(filename, i + 9)

\* int() of the digits filename[i..j].
RECURSIVE DigitsValue(_, _, _)
DigitsValue(filename, i, j) ==
    IF j < i THEN 0
    ELSE DigitsValue(filename, i, j - 1) * 10 + DigitVal(filename[j])

\* No date: the None of parse_file_dates' last return.
NoDate == 0
\* The date strptime does not build: it raises ValueError.
BadDate == -1

\* datetime.strptime(<the 8 digits at i>, '%Y%m%d').date(): %m takes 01..12 and
\* %d 01..31 of two digits, and the date must exist.
Strptime(filename, i) ==
    LET y == DigitsValue(filename, i, i + 3)
        m == DigitsValue(filename, i + 4, i + 5)
        d == DigitsValue(filename, i + 6, i + 7)
    IN  IF y >= 1 /\ m \in 1..12 /\ d >= 1 /\ d <= DaysInMonth(y, m)
        THEN Ordinal(y, m, d)
        ELSE BadDate

\* re.search: the leftmost match.
FirstMatch(S) == CHOOSE i \in S : \A j \in S : i <= j

parse_file_dates(filename) ==
    LET ranges == {i \in 1..Len(filename) : RangeAt(filename, i)}
        singles == {i \in 1..Len(filename) : EightDigitsAt(filename, i)}
    IN  IF ranges # {} THEN
            LET i == FirstMatch(ranges)
                start_date == Strptime(filename, i)
                end_date == Strptime(filename, i + 9)
            IN  IF start_date = BadDate \/ end_date = BadDate
                THEN [status |-> "raised", error |-> "ValueError"]
                ELSE [status |-> "returned",
                      start_date |-> start_date, end_date |-> end_date]
        ELSE IF singles # {} THEN
            LET date == Strptime(filename, FirstMatch(singles))
            IN  IF date = BadDate
                THEN [status |-> "raised", error |-> "ValueError"]
                ELSE [status |-> "returned", start_date |-> date, end_date |-> date]
        ELSE [status |-> "returned", start_date |-> NoDate, end_date |-> NoDate]

Range(seq) == {seq[i] : i \in 1..Len(seq)}

\* matched_files is a list here: add appends, also what is already in it.
ListAppend(matched_files, f) == Append(matched_files, f)

\* matched_files.add(f): matched_files holds the set's members, each once.
SetAdd(matched_files, f) ==
    IF f \in Range(matched_files) THEN matched_files ELSE Append(matched_files, f)

\* One pass of the loop body, lines 160-166, for a file whose name parsed.
MatchFile(matched_files, f, parsed, start_day, end_day) ==
    LET m1 == IF parsed.start_date <= start_day /\ start_day <= parsed.end_date
              THEN SetAdd(matched_files, f) ELSE matched_files
    IN  IF parsed.start_date <= end_day /\ end_day <= parsed.end_date
        THEN SetAdd(m1, f) ELSE m1

\* The loop of find_related_files from file i on: the members of the set at
\* the return, or the exception that left the loop.
RECURSIVE MatchLoop(_, _, _, _, _)
MatchLoop(file_list, i, matched_files, start_day, end_day) ==
    IF i > Len(file_list) THEN [status |-> "returned", files |-> matched_files]
    ELSE LET f == file_list[i]
             parsed == parse_file_dates(f)
         IN  IF Raised(parsed) THEN parsed
             ELSE IF parsed.start_date = NoDate
                  THEN MatchLoop(file_list, i + 1, matched_files, start_day, end_day)
                  ELSE MatchLoop(file_list, i + 1,
                                 MatchFile(matched_files, f, parsed, start_day, end_day),
                                 start_day, end_day)

\* The rearrangements of a sequence: list(a_set) lists it in some order.
Orderings(seq) ==
    {[i \in 1..Len(seq) |-> seq[p[i]]] :
        p \in {q \in [1..Len(seq) -> 1..Len(seq)] :
                  \A a, b \in 1..Len(seq) : a # b => q[a] # q[b]}}

\* The results find_related_files may give.
find_related_files(file_list, utc_start, utc_end) ==
    LET r == MatchLoop(file_list, 1, <<>>, DateOf(utc_start), DateOf(utc_end))
    IN  IF Raised(r) THEN {r}
        ELSE {[status |-> "returned", files |-> o] : o \in Orderings(r.files)}

\* glbx-mdp3-20180406.trades.csv
Name_20180406 ==
    <<"g", "l", "b", "x", "-", "m", "d", "p", "3", "-", "2", "0", "1", "8", 
      "0", "4", "0", "6", ".", "t", "r", "a", "d", "e", "s", ".", "c", "s", 
      "v">>

\* glbx-mdp3-20180408-20180430.trades.csv
Name_20180408_20180430 ==
    <<"g", "l", "b", "x", "-", "m", "d", "p", "3", "-", "2", "0", "1", "8", 
      "0", "4", "0", "8", "-", "2", "0", "1", "8", "0", "4", "3", "0", ".", 
      "t", "r", "a", "d", "e", "s", ".", "c", "s", "v">>

\* glbx-mdp3-20180507.trades.csv
Name_20180507 ==
    <<"g", "l", "b", "x", "-", "m", "d", "p", "3", "-", "2", "0", "1", "8", 
      "0", "5", "0", "7", ".", "t", "r", "a", "d", "e", "s", ".", "c", "s", 
      "v">>

\* glbx-mdp3-20180407-20180408.trades.csv
Name_20180407_20180408 ==
    <<"g", "l", "b", "x", "-", "m", "d", "p", "3", "-", "2", "0", "1", "8", 
      "0", "4", "0", "7", "-", "2", "0", "1", "8", "0", "4", "0", "8", ".", 
      "t", "r", "a", "d", "e", "s", ".", "c", "s", "v">>

\* glbx-mdp3-20180430-20180408.trades.csv
Name_20180430_20180408 ==
    <<"g", "l", "b", "x", "-", "m", "d", "p", "3", "-", "2", "0", "1", "8", 
      "0", "4", "3", "0", "-", "2", "0", "1", "8", "0", "4", "0", "8", ".", 
      "t", "r", "a", "d", "e", "s", ".", "c", "s", "v">>

\* notes-2018.csv
Name_no_date ==
    <<"n", "o", "t", "e", "s", "-", "2", "0", "1", "8", ".", "c", "s", "v">>

\* glbx-mdp3-20181345.trades.csv
Name_20181345 ==
    <<"g", "l", "b", "x", "-", "m", "d", "p", "3", "-", "2", "0", "1", "8", 
      "1", "3", "4", "5", ".", "t", "r", "a", "d", "e", "s", ".", "c", "s", 
      "v">>

\* es201804081.csv
Name_201804081 ==
    <<"e", "s", "2", "0", "1", "8", "0", "4", "0", "8", "1", ".", "c", "s", 
      "v">>

FileNames ==
    {Name_20180406, Name_20180408_20180430, Name_20180507,
     Name_20180407_20180408, Name_20180430_20180408, Name_no_date,
     Name_20181345, Name_201804081}

\* The most files of a file_list.
MaxFiles == 3

FileLists == UNION {[1..n -> FileNames] : n \in 0..MaxFiles}

\* The reference dates whose windows the file lists are searched for.
FileDates ==
    {Ordinal(2018, 4, 6), Ordinal(2018, 4, 7), Ordinal(2018, 4, 8),
     Ordinal(2018, 4, 9), Ordinal(2018, 5, 1), Ordinal(2018, 5, 7)}

InitFiles ==
    /\ call \in [fn : {"find_related_files"}, file_list : FileLists, date : FileDates]
    /\ ret = None
    /\ kept = {}
    /\ DriverIdle
    /\ UniformIdle

\* The driver's call, lines 238 and 246.
CallFindRelatedFiles ==
    /\ ret = None
    /\ call.fn = "find_related_files"
    /\ LET w == get_utc_start_end(call.date)
       IN  ret' \in find_related_files(call.file_list, w.start, w.end)
    /\ UNCHANGED <<call, kept, driverVars, uniVars>>

NextFiles == CallFindRelatedFiles

SpecFiles == InitFiles /\ [][NextFiles]_vars

(***************************************************************************)
(* Claims about the file names, checked under SpecFiles                    *)
(***************************************************************************)
\* The inclusive date range each name of FileNames spells, read off the name.
SpelledRange(f) ==
    CASE f = Name_20180406 -> <<Ordinal(2018, 4, 6), Ordinal(2018, 4, 6)>>
      [] f = Name_20180408_20180430 -> <<Ordinal(2018, 4, 8), Ordinal(2018, 4, 30)>>
      [] f = Name_20180507 -> <<Ordinal(2018, 5, 7), Ordinal(2018, 5, 7)>>
      [] f = Name_20180407_20180408 -> <<Ordinal(2018, 4, 7), Ordinal(2018, 4, 8)>>
      [] f = Name_20180430_20180408 -> <<Ordinal(2018, 4, 30), Ordinal(2018, 4, 8)>>
      [] f = Name_201804081 -> <<Ordinal(2018, 4, 8), Ordinal(2018, 4, 8)>>

\* The names that spell no date: no run of 8 digits, or one that is no date.
Unparseable == {Name_no_date, Name_20181345}

\* The range the name spells contains the UTC date of the window's start or end.
CoversWindow(f, date) ==
    LET start_day == date - 1   \* 18:00 in New York is 22:00 or 23:00 UTC
        end_day == date         \* 17:00 in New York is 21:00 or 22:00 UTC
    IN  /\ f \notin Unparseable
        /\ \/ SpelledRange(f)[1] <= start_day /\ start_day <= SpelledRange(f)[2]
           \/ SpelledRange(f)[1] <= end_day /\ end_day <= SpelledRange(f)[2]

\* C9: find_related_files returns a name iff the inclusive range the name
\* spells contains utc_start.date() or utc_end.date(), each returned name
\* once; for the single-date file of 2018-04-06 and the range file
\* 2018-04-08..2018-04-30 the window of 2018-04-08 gives the second file alone.
C9_FileRangeMatching ==
    (call.fn = "find_related_files" /\ Returned(ret)) =>
        /\ \A f \in FileNames :
              f \in Range(ret.files) <=>
                  (f \in Range(call.file_list) /\ CoversWindow(f, call.date))
        /\ \A i, j \in 1..Len(ret.files) : i # j => ret.files[i] # ret.files[j]
        /\ (call.file_list = <<Name_20180406, Name_20180408_20180430>>
                /\ call.date = Ordinal(2018, 4, 8)) =>
              ret.files = <<Name_20180408_20180430>>

C9_Witness ==
    /\ call.fn = "find_related_files"
    /\ call.file_list = <<Name_20180406, Name_20180408_20180430>>
    /\ call.date = Ordinal(2018, 4, 8)
    /\ Returned(ret)
    /\ ret.files = <<Name_20180408_20180430>>

\* A file whose range holds both dates of the window is returned once.
C9_WitnessBothDates ==
    /\ call.fn = "find_related_files"
    /\ call.file_list = <<Name_20180407_20180408, Name_20180407_20180408>>
    /\ call.date = Ordinal(2018, 4, 8)
    /\ Returned(ret)
    /\ ret.files = <<Name_20180407_20180408>>

\* C10: for every file name in the list that spells no date (no run of 8
\* digits, or a run that is no calendar date) the call completes normally,
\* the file is absent from the result and the other files are still evaluated.
C10_UnparseableSkipped ==
    (/\ call.fn = "find_related_files"
     /\ ret # None
     /\ Range(call.file_list) \cap Unparseable # {}) =>
        /\ Returned(ret)
        /\ Range(ret.files) \cap Unparseable = {}
        /\ \A f \in Range(call.file_list) \ Unparseable :
              f \in Range(ret.files) <=> CoversWindow(f, call.date)

\* What holds of the code: a name without a run of 8 digits is skipped.
C10_NoDigitRunSkipped ==
    (/\ call.fn = "find_related_files"
     /\ ret # None
     /\ Name_20181345 \notin Range(call.file_list)) =>
        /\ Returned(ret)
        /\ Name_no_date \notin Range(ret.files)

C10_WitnessRaised ==
    /\ call.fn = "find_related_files"
    /\ call.file_list = <<Name_20181345, Name_20180408_20180430>>
    /\ call.date = Ordinal(2018, 4, 8)
    /\ Raised(ret)

(***************************************************************************)
(* get_related_trade_records: the helpers of one reference row             *)
(***************************************************************************)
\* 10 ** 9: raw prices are the reference's price units times 10^9.
PriceScale == 1000000000

\* reference_date.strftime('%Y%m%d'), as the number the digits spell.
DateStr(date) == YearOf(date) * 10000 + MonthOf(date) * 100 + DayOf(date)

\* An is_processed that never finds the file.
is_processed_never(folder, reference_date) == FALSE

\* os.path.isfile(<output_folder>/<YYYYMMDD>.parquet)
is_processed(folder, reference_date) == DateStr(reference_date) \in DOMAIN folder

\* chunk[(chunk['ts_utc'] >= utc_start) & (chunk['ts_utc'] < utc_end)]
InWindow(df, utc_start, utc_end) ==
    SelectSeq(df, LAMBDA r : r.ts_event >= utc_start /\ r.ts_event < utc_end)

\* pd.concat(candidate_data, ignore_index=True) of a list that is not empty.
RECURSIVE Concat(_)
Concat(frames) ==
    IF frames = <<>> THEN <<>> ELSE Head(frames) \o Concat(Tail(frames))

\* A selection that gives the rows in the order of their ts_event.
RowsOfSorted(df, inst_id) ==
    CHOOSE o \in Orderings(SelectSeq(df, LAMBDA r : r.instrument_id = inst_id)) :
        \A i \in 1..(Len(o) - 1) : o[i].ts_event <= o[i + 1].ts_event

\* full_data[full_data['instrument_id'] == inst_id], and a group of the groupby.
RowsOf(df, inst_id) == SelectSeq(df, LAMBDA r : r.instrument_id = inst_id)

InstrumentIds(df) == {df[i].instrument_id : i \in 1..Len(df)}

\* The keys of a groupby come in ascending order.
RECURSIVE Ascending(_)
Ascending(S) ==
    IF S = {} THEN <<>>
    ELSE LET least == CHOOSE x \in S : \A y \in S : x <= y
         IN  <<least>> \o Ascending(S \ {least})

\* group_df['size'].sum()
RECURSIVE SumSize(_)
SumSize(df) == IF df = <<>> THEN 0 ELSE Head(df).size + SumSize(Tail(df))

\* An idxmax that takes the last label instead of the largest sum.
IdxLast(df) == CHOOSE i \in InstrumentIds(df) : \A j \in InstrumentIds(df) : j <= i

\* volume_sum.idxmax(): the first label, in ascending order, of the largest sum.
IdxMax(df) ==
    LET ids == InstrumentIds(df)
        largest == {i \in ids :
                       \A j \in ids : SumSize(RowsOf(df, i)) >= SumSize(RowsOf(df, j))}
    IN  CHOOSE i \in largest : \A j \in largest : i <= j

\* group_df.sort_values('ts_event'): quicksort is not stable, so rows of equal
\* ts_event come in any order.
SortValues(df) ==
    {o \in Orderings(df) : \A i \in 1..(Len(o) - 1) : o[i].ts_event <= o[i + 1].ts_event}

Prices(df) == {df[i].price : i \in 1..Len(df)}

\* Lines 281-285, of the sorted group.
Aggregate(sorted) ==
    [open_ |-> sorted[1].price,
     close_ |-> sorted[Len(sorted)].price,
     high_ |-> CHOOSE x \in Prices(sorted) : \A y \in Prices(sorted) : y <= x,
     low_ |-> CHOOSE x \in Prices(sorted) : \A y \in Prices(sorted) : x <= y,
     volume_ |-> SumSize(sorted)]

\* A comparison that tolerates one unit of difference.
ohlc_flag_tolerant(a, ref) ==
    <<a.open_ - ref.open * PriceScale \in -1..1,
      a.high_ - ref.high * PriceScale \in -1..1,
      a.low_ - ref.low * PriceScale \in -1..1,
      a.close_ - ref.close * PriceScale \in -1..1>>

\* Lines 288-293.
ohlc_flag(a, ref) ==
    <<a.open_ = ref.open * PriceScale,
      a.high_ = ref.high * PriceScale,
      a.low_ = ref.low * PriceScale,
      a.close_ = ref.close * PriceScale>>

\* sum(ohlc_flag)
Sum(flags) == Cardinality({i \in 1..Len(flags) : flags[i]})

Info(a) == <<a.open_, a.high_, a.low_, a.close_, a.volume_>>

\* The locals the loop body reads and writes; warned: it printed the
\* "multiple contracts" warning; error: the exception that left it.
Locals ==
    [max_ohlc |-> max_ohlc, candidate_volume |-> candidate_volume,
     saved_info_1 |-> saved_info_1, saved_info_2 |-> saved_info_2,
     warned |-> FALSE, error |-> ""]

\* A replacement that leaves saved_info_1 and saved_info_2 as they were.
ReplaceKeepInfo(st, inst_id, a, slot) ==
    IF st.candidate_volume[2] = Unset THEN [st EXCEPT !.error = "TypeError"]
    ELSE IF a.volume_ > st.candidate_volume[2]
    THEN [st EXCEPT !.candidate_volume = <<inst_id, a.volume_>>]
    ELSE st

\* volume_ > candidate_volume[1], which raises TypeError on None.
Replace(st, inst_id, a, slot) ==
    IF st.candidate_volume[2] = Unset THEN [st EXCEPT !.error = "TypeError"]
    ELSE IF a.volume_ > st.candidate_volume[2]
    THEN [st EXCEPT !.candidate_volume = <<inst_id, a.volume_>>,
                    !.saved_info_1 = IF slot = 1 THEN Info(a) ELSE @,
                    !.saved_info_2 = IF slot = 2 THEN Info(a) ELSE @]
    ELSE st

\* A strong branch where the later of two contracts wins whatever its volume.
StrongMatchLastWins(st, m, inst_id, a) ==
    IF m > st.max_ohlc
    THEN [st EXCEPT !.candidate_volume = <<inst_id, a.volume_>>]
    ELSE [st EXCEPT !.warned = TRUE, !.candidate_volume = <<inst_id, a.volume_>>]

\* Lines 295-307: sum(ohlc_flag) >= 3.
StrongMatch(st, m, inst_id, a) ==
    IF m > st.max_ohlc
    THEN [st EXCEPT !.candidate_volume = <<inst_id, a.volume_>>]
    ELSE Replace([st EXCEPT !.warned = TRUE], inst_id, a, 0)

\* A branch for 2 where a group of equal score takes over without the volume
\* check.
TwoMatchLastWins(st, inst_id, a) ==
    IF 2 < st.max_ohlc THEN st
    ELSE [st EXCEPT !.candidate_volume = <<inst_id, a.volume_>>,
                    !.saved_info_2 = Info(a)]

\* Lines 308-321: sum(ohlc_flag) == 2.
TwoMatch(st, inst_id, a) ==
    IF 2 < st.max_ohlc THEN st
    ELSE IF st.max_ohlc < 2
    THEN [st EXCEPT !.candidate_volume = <<inst_id, a.volume_>>,
                    !.saved_info_2 = Info(a)]
    ELSE Replace(st, inst_id, a, 2)

\* Lines 322-335: sum(ohlc_flag) == 1.
OneMatch(st, inst_id, a) ==
    IF 1 < st.max_ohlc THEN st
    ELSE IF st.max_ohlc < 1
    THEN [st EXCEPT !.candidate_volume = <<inst_id, a.volume_>>,
                    !.saved_info_1 = Info(a)]
    ELSE Replace(st, inst_id, a, 1)

Max(x, y) == IF x >= y THEN x ELSE y

\* Lines 288-337 for one group; a continue leaves max_ohlc, which is the
\* larger already.
LoopBody(st, inst_id, a, ref) ==
    LET m == Sum(ohlc_flag(a, ref))
        st1 == IF m >= 3 THEN StrongMatch(st, m, inst_id, a)
               ELSE IF m = 2 THEN TwoMatch(st, inst_id, a)
               ELSE IF m = 1 THEN OneMatch(st, inst_id, a)
               ELSE st
    IN  [st1 EXCEPT !.max_ohlc = Max(st.max_ohlc, m)]

\* What the loop computed for a group: lines 281-293.
Scored(inst_id, a, ref) ==
    [inst_id |-> inst_id, info |-> Info(a), flags |-> ohlc_flag(a, ref),
     m |-> Sum(ohlc_flag(a, ref))]

Line(date, msg, info) == [date |-> DateStr(date), msg |-> msg, info |-> info]

Step(date, step) == [run |-> run, date |-> DateStr(date), step |-> step]

\* output_folder with <YYYYMMDD>.parquet written.
Written(folder, date, records) ==
    [d \in DOMAIN folder \cup {DateStr(date)} |->
        IF d = DateStr(date) THEN records ELSE folder[d]]

(***************************************************************************)
(* get_related_trade_records: the steps of the call                        *)
(***************************************************************************)
\* The row iterrows is at.
Cur == reference_df[row]

\* glob.glob gives the names of the folder in some order, each once;
\* find_related_files does not depend on it.
FilenameList(folder) ==
    CHOOSE l \in [1..Cardinality(DOMAIN folder) -> DOMAIN folder] :
        Range(l) = DOMAIN folder

loopVars ==
    <<full_data, groups_left, max_instrument_id, max_ohlc, candidate_volume,
      saved_info_1, saved_info_2, output_records, scored>>

\* Lines 227-249: the next reference row, up to the related files.
NextRow ==
    /\ pc = "row"
    /\ row <= Len(reference_df)
    /\ LET reference_date == Cur.date
           w == get_utc_start_end(reference_date)
       IN  IF reference_date < FirstDate \/ reference_date > LastDate
           THEN /\ row' = row + 1
                /\ UNCHANGED <<pc, error, related_files, candidate_data, work>>
           ELSE IF is_processed(output_folder, reference_date)
           THEN /\ row' = row + 1
                /\ UNCHANGED <<pc, error, related_files, candidate_data, work>>
           ELSE \E found \in find_related_files(FilenameList(input_folder),
                                                w.start, w.end) :
                    /\ row' = row
                    /\ work' = work \cup {Step(reference_date, "extract")}
                    /\ candidate_data' = <<>>
                    /\ IF Raised(found)
                       THEN /\ pc' = "raised"
                            /\ error' = found.error
                            /\ related_files' = <<>>
                       ELSE /\ pc' = "read"
                            /\ error' = error
                            /\ related_files' = found.files
    /\ UNCHANGED <<uniVars, callVars, reference_df, input_folder, output_folder, run,
                   loopVars, log>>

\* Lines 254-269: one related file, read whole (a file of the model is
\* shorter than a chunk, so it is one chunk, filtered and appended).
ReadFile ==
    /\ pc = "read"
    /\ related_files # <<>>
    /\ LET file == input_folder[Head(related_files)]
           w == get_utc_start_end(Cur.date)
       IN  IF ~file.readable
           THEN /\ pc' = "raised"
                /\ error' = "ParserError"
                /\ UNCHANGED <<related_files, candidate_data>>
           ELSE /\ pc' = pc
                /\ error' = error
                /\ related_files' = Tail(related_files)
                /\ candidate_data' =
                       Append(candidate_data, InWindow(file.rows, w.start, w.end))
    /\ UNCHANGED <<uniVars, callVars, reference_df, input_folder, output_folder, run, row,
                   loopVars, log, work>>

\* Lines 271-278: pd.concat raises ValueError on an empty list and idxmax on
\* an empty frame; nothing catches it.
ConcatAndGroup ==
    /\ pc = "read"
    /\ related_files = <<>>
    /\ IF candidate_data = <<>> \/ Concat(candidate_data) = <<>>
       THEN /\ pc' = "raised"
            /\ error' = "ValueError"
            /\ UNCHANGED <<full_data, groups_left, max_instrument_id, max_ohlc,
                           candidate_volume, scored, work>>
       ELSE /\ pc' = "loop"
            /\ error' = error
            /\ full_data' = Concat(candidate_data)
            /\ max_instrument_id' = IdxMax(full_data')
            /\ groups_left' = Ascending(InstrumentIds(full_data'))
            /\ max_ohlc' = 0
            /\ candidate_volume' = <<Unset, Unset>>
            /\ scored' = <<>>
            /\ work' = work \cup {Step(Cur.date, "reconcile")}
    /\ UNCHANGED <<uniVars, callVars, reference_df, input_folder, output_folder, run, row,
                   related_files, candidate_data, saved_info_1, saved_info_2,
                   output_records, log>>

\* Lines 279-337: the loop body for the next group.
LoopStep ==
    /\ pc = "loop"
    /\ groups_left # <<>>
    /\ \E sorted \in SortValues(RowsOf(full_data, Head(groups_left))) :
          LET st == LoopBody(Locals, Head(groups_left), Aggregate(sorted), Cur)
          IN  /\ scored' = Append(scored, Scored(Head(groups_left), Aggregate(sorted), Cur))
              /\ max_ohlc' = st.max_ohlc
              /\ candidate_volume' = st.candidate_volume
              /\ saved_info_1' = st.saved_info_1
              /\ saved_info_2' = st.saved_info_2
              /\ log' = IF st.warned
                        THEN log \cup {Line(Cur.date, "multiple contracts", <<>>)}
                        ELSE log
              /\ error' = st.error
              /\ IF st.error # ""
                 THEN pc' = "raised" /\ groups_left' = groups_left
                 ELSE pc' = pc /\ groups_left' = Tail(groups_left)
    /\ UNCHANGED <<uniVars, callVars, reference_df, input_folder, output_folder, run, row,
                   related_files, candidate_data, full_data, max_instrument_id,
                   output_records, work>>

\* Lines 340-368: the contract of the day and its rows; reading saved_info_1
\* or saved_info_2 while it is unbound raises UnboundLocalError.
Select ==
    /\ pc = "loop"
    /\ groups_left = <<>>
    /\ IF max_ohlc >= 1
       THEN IF \/ max_ohlc = 1 /\ saved_info_1 = <<>>
               \/ max_ohlc = 2 /\ saved_info_2 = <<>>
            THEN /\ pc' = "raised"
                 /\ error' = "UnboundLocalError"
                 /\ UNCHANGED <<output_records, log>>
            ELSE /\ pc' = "write"
                 /\ error' = error
                 /\ output_records' = RowsOf(full_data, candidate_volume[1])
                 /\ log' = log
                       \cup (IF max_ohlc = 1
                             THEN {Line(Cur.date, "only one value", saved_info_1)}
                             ELSE {})
                       \cup (IF max_ohlc = 2
                             THEN {Line(Cur.date, "only two values", saved_info_2)}
                             ELSE {})
                       \cup {Line(Cur.date, "found", <<candidate_volume[1]>>)}
       ELSE /\ pc' = "write"
            /\ error' = error
            /\ output_records' = RowsOf(full_data, max_instrument_id)
            /\ log' = log \cup {Line(Cur.date, "largest volume", <<max_instrument_id>>)}
    /\ UNCHANGED <<uniVars, callVars, reference_df, input_folder, output_folder, run, row,
                   related_files, candidate_data, full_data, groups_left,
                   max_instrument_id, max_ohlc, candidate_volume, saved_info_1,
                   saved_info_2, scored, work>>

\* Lines 368-388: the day's file, then the next row.
Write ==
    /\ pc = "write"
    /\ output_folder' = Written(output_folder, Cur.date, output_records)
    /\ work' = work \cup {Step(Cur.date, "write")}
    /\ row' = row + 1
    /\ pc' = "row"
    /\ UNCHANGED <<uniVars, callVars, reference_df, input_folder, run, error,
                   related_files, candidate_data, loopVars, log>>

\* The for loop is exhausted: the call returns.
Finish ==
    /\ pc = "row"
    /\ row > Len(reference_df)
    /\ pc' = "done"
    /\ UNCHANGED <<uniVars, callVars, reference_df, input_folder, output_folder, run, row,
                   error, related_files, candidate_data, loopVars, log, work>>

(***************************************************************************)
(* One reference row from its candidate data on: lines 271-388             *)
(***************************************************************************)
\* The reference day of the reconciliation.
ReconDate == Ordinal(2018, 4, 2)

RefRow(date, o, h, l, c) ==
    [date |-> date, open |-> o, high |-> h, low |-> l, close |-> c]

\* Reference open, high, low, close, in price units.
RefSet == {<<1, 2, 1, 1>>, <<1, 1, 1, 1>>}

\* A trade at dt minutes into the window of ReconDate, still without its
\* instrument; price in raw units.
T(dt, price, size) == [dt |-> dt, price |-> price, size |-> size]

\* The shapes a group of the day takes: single trades at, above and below a
\* reference price, rows in and out of time order, rows of equal ts_event.
GroupShapes ==
    { <<>>,
      <<T(1, PriceScale, 1)>>,
      <<T(1, PriceScale, 2)>>,
      <<T(1, PriceScale, 1), T(2, 2 * PriceScale, 1), T(3, PriceScale, 1)>>,
      <<T(3, PriceScale, 1), T(1, PriceScale, 1), T(2, 2 * PriceScale, 2)>>,
      <<T(1, 2 * PriceScale, 1)>>,
      <<T(2, 2 * PriceScale, 2), T(1, PriceScale, 1)>>,
      <<T(1, PriceScale + 1, 3)>>,
      <<T(2, PriceScale, 1), T(1, PriceScale + 1, 1)>>,
      <<T(1, PriceScale - 1, 1), T(1, PriceScale, 1)>>,
      <<T(1, 2 * PriceScale + 1, 5)>> }

\* The most instruments of a day.
MaxInst == 3

\* The rows of instrument inst_id, of the given shape.
GroupRows(inst_id, shape) ==
    [i \in 1..Len(shape) |->
        [ts_event |-> get_utc_start_end(ReconDate).start + shape[i].dt,
         instrument_id |-> inst_id,
         price |-> shape[i].price,
         size |-> shape[i].size]]

\* The day's rows as extracted: the instruments from the last to the first.
RECURSIVE DayRows(_, _)
DayRows(shapes, n) ==
    IF n = 0 THEN <<>> ELSE GroupRows(n, shapes[n]) \o DayRows(shapes, n - 1)

InitRecon ==
    /\ call = [fn |-> "get_related_trade_records"]
    /\ ret = None
    /\ kept = {}
    /\ \E ref \in RefSet, shapes \in [1..MaxInst -> GroupShapes] :
          /\ reference_df = <<RefRow(ReconDate, ref[1], ref[2], ref[3], ref[4])>>
          /\ candidate_data = <<DayRows(shapes, MaxInst)>>
    /\ input_folder = <<>>
    /\ output_folder = <<>>
    /\ run = 1
    /\ row = 1
    /\ pc = "read"
    /\ error = ""
    /\ related_files = <<>>
    /\ full_data = <<>>
    /\ groups_left = <<>>
    /\ max_instrument_id = Unset
    /\ max_ohlc = 0
    /\ candidate_volume = <<Unset, Unset>>
    /\ saved_info_1 = <<>>
    /\ saved_info_2 = <<>>
    /\ output_records = <<>>
    /\ scored = <<>>
    /\ log = {}
    /\ work = {Step(ReconDate, "extract")}
    /\ UniformIdle

NextRecon == ConcatAndGroup \/ LoopStep \/ Select \/ Write \/ Finish

SpecRecon == InitRecon /\ [][NextRecon]_vars

(***************************************************************************)
(* Claims about one reference day, checked under SpecRecon                 *)
(***************************************************************************)
\* The groups of the day have all been visited and its rows selected.
DaySelected == pc = "write" /\ row = 1

\* The instrument whose rows were selected for output.
SelectedId == output_records[1].instrument_id

\* The positions in scored of the groups that matched k fields.
Matching(k) == {i \in 1..Len(scored) : scored[i].m = k}

Volume(i) == scored[i].info[5]

\* C1: if some group's open, high, low and close all equal the reference
\* values times 10^9, the instrument selected for output is a group with
\* match count 4, whatever the volumes and match counts of the other groups
\* and the order the loop visits them in.
C1_ExactMatchWins ==
    (DaySelected /\ Matching(4) # {}) =>
        \E i \in Matching(4) : scored[i].inst_id = SelectedId

\* An exact match followed by a three-field match of larger volume.
C1_WitnessDisplaced ==
    /\ DaySelected
    /\ Len(scored) = 2
    /\ scored[1].m = 4
    /\ scored[2].m = 3
    /\ Volume(2) > Volume(1)
    /\ SelectedId = scored[2].inst_id

\* C2: when exactly two groups match exactly 3 fields and every other group
\* matches fewer, the one of strictly greater summed size is selected, earlier
\* or later in the loop, and the "multiple contracts" warning is printed.
C2_TieBreakByVolume ==
    (DaySelected /\ Cardinality(Matching(3)) = 2 /\ Matching(4) = {}) =>
        /\ \A i, j \in Matching(3) :
              Volume(i) > Volume(j) => SelectedId = scored[i].inst_id
        /\ Line(Cur.date, "multiple contracts", <<>>) \in log

\* The larger of the two comes first and a lesser match follows.
C2_Witness ==
    /\ DaySelected
    /\ Len(scored) = 3
    /\ scored[1].m = 3
    /\ scored[2].m = 3
    /\ scored[3].m = 2
    /\ Volume(1) > Volume(2)
    /\ SelectedId = scored[1].inst_id
    /\ Line(Cur.date, "multiple contracts", <<>>) \in log

\* The larger of the two comes second.
C2_WitnessLater ==
    /\ DaySelected
    /\ Matching(3) = {1, 2}
    /\ Volume(2) > Volume(1)
    /\ SelectedId = scored[2].inst_id

\* The day's file has been written.
DayWritten == pc \in {"row", "done"} /\ row = 2

DayFile == output_folder[DateStr(ReconDate)]

\* The summed size of the rows of full_data with the given instrument.
RECURSIVE TotalSize(_, _)
TotalSize(inst_id, n) ==
    IF n = 0 THEN 0
    ELSE TotalSize(inst_id, n - 1)
         + (IF full_data[n].instrument_id = inst_id THEN full_data[n].size ELSE 0)

\* sub is the rows of df whose instrument is inst_id, in their order in df.
RECURSIVE IsRowsOf(_, _, _)
IsRowsOf(sub, df, inst_id) ==
    IF df = <<>> THEN sub = <<>>
    ELSE IF Head(df).instrument_id = inst_id
         THEN sub # <<>> /\ Head(sub) = Head(df) /\ IsRowsOf(Tail(sub), Tail(df), inst_id)
         ELSE IsRowsOf(sub, Tail(df), inst_id)

\* C3: for a day with candidate rows whose groups all match no field, the
\* selected instrument_id is max_instrument_id, one of maximum total size,
\* and the day's file holds exactly that instrument's rows.
C3_DegradedFallback ==
    (DayWritten /\ Matching(0) = 1..Len(scored)) =>
        /\ DayFile # <<>>
        /\ DayFile[1].instrument_id = max_instrument_id
        /\ \A i \in 1..Len(full_data) :
              TotalSize(max_instrument_id, Len(full_data))
                  >= TotalSize(full_data[i].instrument_id, Len(full_data))
        /\ IsRowsOf(DayFile, full_data, max_instrument_id)

\* Three groups without a match, the largest of them not the last.
C3_Witness ==
    /\ DayWritten
    /\ Len(scored) = 3
    /\ Matching(0) = {1, 2, 3}
    /\ max_instrument_id = 2
    /\ Volume(2) > Volume(3)
    /\ DayFile[1].instrument_id = 2

\* The reference value of field k (open, high, low, close), in raw units.
RefRaw(k) ==
    (CASE k = 1 -> Cur.open [] k = 2 -> Cur.high [] k = 3 -> Cur.low
       [] k = 4 -> Cur.close) * 1000000000

Trade(y, m, d, hh, mm, inst_id, price, size) ==
    [ts_event |-> Combine(Ordinal(y, m, d), hh, mm), instrument_id |-> inst_id,
     price |-> price, size |-> size]

CsvFile(rows) == [readable |-> TRUE, rows |-> rows]

\* A file pd.read_csv fails on.
CorruptFile == [readable |-> FALSE, rows |-> <<>>]

\* glbx-mdp3-20180406.trades.csv: two instruments in the window of
\* 2018-04-06 and a trade between that window's end and the next one's start.
Rows_20180406 ==
    <<Trade(2018, 4, 6, 14, 0, 1, PriceScale, 1),
      Trade(2018, 4, 6, 15, 0, 2, 2 * PriceScale, 3),
      Trade(2018, 4, 6, 21, 30, 1, PriceScale, 1)>>

\* glbx-mdp3-20180408-20180430.trades.csv: the window of 2018-04-09 and after.
Rows_20180408_20180430 ==
    <<Trade(2018, 4, 9, 13, 0, 2, PriceScale, 1),
      Trade(2018, 4, 9, 14, 0, 3, PriceScale, 2),
      Trade(2018, 4, 10, 13, 0, 3, PriceScale, 1)>>

\* es201804081.csv: the evening of 2018-04-08, in the window of 2018-04-09.
Rows_201804081 ==
    <<Trade(2018, 4, 8, 22, 10, 3, PriceScale + 1, 1)>>

\* glbx-mdp3-20180406.trades.csv where no instrument matches more than one
\* field of 1, 1, 1, 1, the later one with the larger volume.
Rows_20180406_partial ==
    <<Trade(2018, 4, 6, 13, 0, 1, PriceScale + 1, 1),
      Trade(2018, 4, 6, 13, 1, 1, PriceScale, 1),
      Trade(2018, 4, 6, 13, 2, 1, PriceScale + 1, 1),
      Trade(2018, 4, 6, 13, 0, 2, PriceScale + 1, 2),
      Trade(2018, 4, 6, 13, 1, 2, PriceScale, 1),
      Trade(2018, 4, 6, 13, 2, 2, PriceScale + 1, 2)>>

\* glbx-mdp3-20180408-20180430.trades.csv where an instrument that matches
\* one field of 1, 2, 1, 1 comes before one that matches two.
Rows_20180408_20180430_partial ==
    <<Trade(2018, 4, 9, 13, 0, 2, 2 * PriceScale, 4),
      Trade(2018, 4, 9, 13, 0, 3, PriceScale + 1, 1),
      Trade(2018, 4, 9, 13, 1, 3, PriceScale, 1)>>

\* The input folders of the model: whole; with a header-only file; with a
\* file that cannot be read; with a name whose digits are no date; with days
\* of partial matches only.
Folders ==
    { (Name_20180406 :> CsvFile(Rows_20180406))
          @@ (Name_20180408_20180430 :> CsvFile(Rows_20180408_20180430))
          @@ (Name_201804081 :> CsvFile(Rows_201804081)),
      (Name_20180406 :> CsvFile(<<>>))
          @@ (Name_20180408_20180430 :> CsvFile(Rows_20180408_20180430)),
      (Name_20180406 :> CsvFile(Rows_20180406))
          @@ (Name_20180408_20180430 :> CsvFile(Rows_20180408_20180430))
          @@ (Name_201804081 :> CorruptFile),
      (Name_20180406 :> CsvFile(Rows_20180406))
          @@ (Name_20181345 :> CsvFile(<<>>)),
      (Name_20180406 :> CsvFile(Rows_20180406_partial))
          @@ (Name_20180408_20180430 :> CsvFile(Rows_20180408_20180430_partial)) }

\* The rows a reference file is made of: a day with its file, the Saturday
\* after it (a related file, no trade in the window), a day read from two
\* files, a day without any file, a day the driver does not accept.
ReferenceRows ==
    { RefRow(Ordinal(2018, 4, 6), 1, 1, 1, 1),
      RefRow(Ordinal(2018, 4, 7), 1, 1, 1, 1),
      RefRow(Ordinal(2018, 4, 9), 1, 2, 1, 1),
      RefRow(Ordinal(2018, 5, 3), 1, 1, 1, 1),
      RefRow(Ordinal(2025, 9, 29), 1, 1, 1, 1) }

\* The most rows of a reference file.
MaxRows == 3

\* The most calls of get_related_trade_records on the same folders.
MaxRuns == 2

Init ==
    /\ call = [fn |-> "get_related_trade_records"]
    /\ ret = None
    /\ kept = {}
    /\ reference_df \in UNION {[1..n -> ReferenceRows] : n \in 1..MaxRows}
    /\ input_folder \in Folders
    /\ output_folder = <<>>
    /\ run = 1
    /\ row = 1
    /\ pc = "row"
    /\ error = ""
    /\ related_files = <<>>
    /\ candidate_data = <<>>
    /\ full_data = <<>>
    /\ groups_left = <<>>
    /\ max_instrument_id = Unset
    /\ max_ohlc = 0
    /\ candidate_volume = <<Unset, Unset>>
    /\ saved_info_1 = <<>>
    /\ saved_info_2 = <<>>
    /\ output_records = <<>>
    /\ scored = <<>>
    /\ log = {}
    /\ work = {}
    /\ UniformIdle

\* The call has returned and get_related_trade_records is called again with
\* the same arguments: its locals are new, the folders are as it left them.
Rerun ==
    /\ pc = "done"
    /\ run < MaxRuns
    /\ run' = run + 1
    /\ row' = 1
    /\ pc' = "row"
    /\ related_files' = <<>>
    /\ candidate_data' = <<>>
    /\ full_data' = <<>>
    /\ groups_left' = <<>>
    /\ max_instrument_id' = Unset
    /\ max_ohlc' = 0
    /\ candidate_volume' = <<Unset, Unset>>
    /\ saved_info_1' = <<>>
    /\ saved_info_2' = <<>>
    /\ output_records' = <<>>
    /\ scored' = <<>>
    /\ UNCHANGED <<uniVars, callVars, reference_df, input_folder, output_folder, error,
                   log, work>>

Next ==
    \/ NextRow
    \/ ReadFile
    \/ ConcatAndGroup
    \/ LoopStep
    \/ Select
    \/ Write
    \/ Finish
    \/ Rerun

Spec == Init /\ [][Next]_vars

(***************************************************************************)
(* Claims on the batch                                                     *)
(***************************************************************************)
\* The candidate data of the current row is complete and has no record.
NoCandidateData ==
    /\ pc = "read"
    /\ related_files = <<>>
    /\ (candidate_data = <<>> \/ Concat(candidate_data) = <<>>)

\* C4: when a reference day has no candidate record (no related file, or
\* related files without a row in the window), the driver reports a failure
\* for that day, writes no file for it and goes on with the next reference
\* row.
C4_NoSilentDrop ==
    [][NoCandidateData =>
          /\ pc' = "row"
          /\ row' = row + 1
          /\ output_folder' = output_folder
          /\ \E l \in log' : l.date = DateStr(Cur.date)]_vars

\* A day without candidate records has ended the call with a ValueError while
\* a later reference row, whose day has records, is still to be processed.
C4_WitnessAborted ==
    /\ pc = "raised"
    /\ error = "ValueError"
    /\ row < Len(reference_df)
    /\ reference_df[row + 1].date = Ordinal(2018, 4, 6)
    /\ DateStr(Ordinal(2018, 4, 6)) \notin DOMAIN output_folder

\* C5: in a run after a completed one, with the same reference table and
\* folders, every output file stays as it is and no extraction,
\* reconciliation or write is done for a date whose file exists.
C5_IdempotentRerun ==
    [][run >= 2 =>
          /\ \A d \in DOMAIN output_folder :
                d \in DOMAIN output_folder' /\ output_folder'[d] = output_folder[d]
          /\ \A w \in work' \ work : w.date \notin DOMAIN output_folder]_vars

\* The second run has gone through a reference table with written days and
\* has done nothing.
C5_Witness ==
    /\ run = 2
    /\ pc = "done"
    /\ output_folder # <<>>
    /\ \A w \in work : w.run = 1

\* The next related file of the current row cannot be read.
ReadFails ==
    /\ pc = "read"
    /\ related_files # <<>>
    /\ ~input_folder[Head(related_files)].readable

\* C11: when reading one related file of a day fails, the failure is reported
\* for that file only, the records of the day's other related files are kept
\* and used, and the batch goes on.
C11_FileFailureIsolated ==
    [][ReadFails =>
          /\ pc' = "read"
          /\ related_files' = Tail(related_files)
          /\ candidate_data' = candidate_data
          /\ \E l \in log' \ log : l.date = DateStr(Cur.date)]_vars

\* The read of a file has ended the call after the day's other related file
\* gave its records; a later reference row is left unprocessed.
C11_WitnessAborted ==
    /\ pc = "raised"
    /\ error = "ParserError"
    /\ candidate_data # <<>>
    /\ Concat(candidate_data) # <<>>
    /\ row < Len(reference_df)
    /\ DateStr(Cur.date) \notin DOMAIN output_folder

(***************************************************************************)
(* Further claims about one reference day, checked under SpecRecon         *)
(***************************************************************************)
\* The instrument the selection of lines 340-366 names.
NamedId == IF max_ohlc >= 1 THEN candidate_volume[1] ELSE max_instrument_id

\* C12: the rows selected for a day are all and only the rows of the
\* concatenated candidate data whose instrument_id is the selected one, in
\* the order they have there; the sort used for scoring does not reorder, add
\* or drop rows, so the output is not empty and has a single instrument_id.
C12_OutputIsWinningGroup ==
    DaySelected =>
        /\ output_records # <<>>
        /\ \A i \in 1..Len(output_records) :
              output_records[i].instrument_id = NamedId
        /\ Len(output_records)
              = Cardinality({i \in 1..Len(full_data) :
                                full_data[i].instrument_id = NamedId})
        /\ IsRowsOf(output_records, full_data, NamedId)

\* The selected group was extracted out of time order and stays so, next to
\* another group.
C12_Witness ==
    /\ DaySelected
    /\ Len(scored) >= 2
    /\ \E i \in 1..(Len(output_records) - 1) :
          output_records[i].ts_event > output_records[i + 1].ts_event

(***************************************************************************)
(* The batch killed and started again                                      *)
(***************************************************************************)
\* What pq.write_table leaves at output_file when the process dies in it:
\* the file is created when the writer opens it and the rows reach it before
\* the writer is closed, so the path holds some rows short of all of them.
Truncated(records) == {SubSeq(records, 1, n) : n \in 0..(Len(records) - 1)}

\* The process dies while get_related_trade_records runs: its locals are
\* gone, the folders stay; at line 386 the day's file may be part-written.
Kill ==
    /\ pc \in {"row", "read", "loop", "write"}
    /\ run < MaxRuns
    /\ pc' = "killed"
    /\ \/ output_folder' = output_folder
       \/ /\ pc = "write"
          /\ \E part \in Truncated(output_records) :
                output_folder' = Written(output_folder, Cur.date, part)
    /\ row' = 0
    /\ related_files' = <<>>
    /\ candidate_data' = <<>>
    /\ full_data' = <<>>
    /\ groups_left' = <<>>
    /\ max_instrument_id' = Unset
    /\ max_ohlc' = 0
    /\ candidate_volume' = <<Unset, Unset>>
    /\ saved_info_1' = <<>>
    /\ saved_info_2' = <<>>
    /\ output_records' = <<>>
    /\ scored' = <<>>
    /\ UNCHANGED <<uniVars, callVars, reference_df, input_folder, run, error, log, work>>

\* get_related_trade_records is called again with the same arguments.
Restart ==
    /\ pc = "killed"
    /\ run' = run + 1
    /\ row' = 1
    /\ pc' = "row"
    /\ UNCHANGED <<uniVars, callVars, reference_df, input_folder, output_folder, error,
                   related_files, candidate_data, loopVars, log, work>>

NextKill ==
    \/ NextRow
    \/ ReadFile
    \/ ConcatAndGroup
    \/ LoopStep
    \/ Select
    \/ Write
    \/ Finish
    \/ Kill
    \/ Restart

SpecKill == Init /\ [][NextKill]_vars

\* The candidate data a reference date has in the input folder, for each
\* order of its related files.
DayData(date) ==
    LET w == get_utc_start_end(date)
        found == {f \in find_related_files(FilenameList(input_folder), w.start, w.end) :
                     Returned(f)}
    IN  {Concat([i \in 1..Len(f.files) |->
                    InWindow(input_folder[f.files[i]].rows, w.start, w.end)]) :
            f \in found}

\* The file of the date holds all the rows of one instrument of the day's
\* candidate data, the instrument a run reported for the day.
CompleteFile(date) ==
    LET file == output_folder[DateStr(date)]
    IN  /\ file # <<>>
        /\ \E data \in DayData(date) : IsRowsOf(file, data, file[1].instrument_id)
        /\ \E l \in log :
              /\ l.date = DateStr(date)
              /\ l.msg \in {"found", "largest volume"}
              /\ l.info = <<file[1].instrument_id>>

\* C13: when the batch is killed at any point, the middle of writing a day's
\* file included, and started again with the same inputs, then on completion
\* every accepted reference day with candidate data has a complete output
\* file, the one an uninterrupted run writes.
C13_ResumableAfterKill ==
    pc = "done" =>
        \A i \in 1..Len(reference_df) :
            LET date == reference_df[i].date
            IN  (/\ date >= FirstDate
                 /\ date <= LastDate
                 /\ \E data \in DayData(date) : data # <<>>) =>
                    /\ DateStr(date) \in DOMAIN output_folder
                    /\ CompleteFile(date)

\* The restarted batch has completed without a step for a day whose file the
\* killed run left part-written.
C13_WitnessPartialKept ==
    /\ pc = "done"
    /\ run = 2
    /\ \E i \in 1..Len(reference_df) :
          LET date == reference_df[i].date
          IN  /\ DateStr(date) \in DOMAIN output_folder
              /\ ~CompleteFile(date)
              /\ \A w \in work : w.date = DateStr(date) => w.run = 1

(***************************************************************************)
(* Further claims about the windows, checked under SpecWindow              *)
(***************************************************************************)
\* C14: get_time_range called with a session type other than "electronic"
\* and "regular" fails with an InvalidSessionType error that names the
\* session type, and returns no window.
C14_InvalidSessionType ==
    (/\ call.fn = "get_time_range"
     /\ call.time_type \notin {"electronic", "regular"}
     /\ ret # None) =>
        /\ Raised(ret)
        /\ ret.error = "InvalidSessionType"
        /\ ret.names = call.time_type

\* The call with "overnight" has ended in the UnboundLocalError of the return
\* statement.
C14_WitnessUnbound ==
    /\ call.fn = "get_time_range"
    /\ call.time_type = "overnight"
    /\ Raised(ret)
    /\ ret.error = "UnboundLocalError"
    /\ ret.names = "ny_start"

(***************************************************************************)
(* Claims about the reconciliation loop, checked under SpecRecon           *)
(***************************************************************************)
\* The loop is between two groups, or past the last one.
InLoop == pc = "loop" /\ row = 1

\* C15: after any prefix of the day's groups, if max_ohlc is at least 1 the
\* tracked candidate is a visited group whose match count is max_ohlc and
\* whose volume is the largest among the visited groups of that match count.
C15_FoldInvariant ==
    (InLoop /\ max_ohlc >= 1) =>
        \E i \in 1..Len(scored) :
            /\ scored[i].inst_id = candidate_volume[1]
            /\ Volume(i) = candidate_volume[2]
            /\ scored[i].m = max_ohlc
            /\ \A j \in Matching(max_ohlc) : Volume(j) <= Volume(i)

\* max_ohlc is 4 and the tracked candidate is a group that matches 3 fields.
C15_WitnessWeakerTracked ==
    /\ InLoop
    /\ Len(scored) = 2
    /\ max_ohlc = 4
    /\ scored[1].m = 4
    /\ scored[2].m = 3
    /\ candidate_volume = <<scored[2].inst_id, Volume(2)>>

\* C16: a group that matches 1 or 2 fields leaves the tracked candidate alone
\* when its match count is below max_ohlc, replaces it only on a strictly
\* greater volume when its match count equals max_ohlc, and becomes the
\* candidate when its match count exceeds max_ohlc.
C16_PartialReplacement ==
    [][(InLoop /\ Len(scored') = Len(scored) + 1) =>
          LET g == scored'[Len(scored')]
              volume_ == g.info[5]
          IN  g.m \in {1, 2} =>
                 /\ g.m < max_ohlc => candidate_volume' = candidate_volume
                 /\ g.m = max_ohlc =>
                       candidate_volume' =
                           IF volume_ > candidate_volume[2]
                           THEN <<g.inst_id, volume_>>
                           ELSE candidate_volume
                 /\ g.m > max_ohlc =>
                       candidate_volume' = <<g.inst_id, volume_>>]_vars

\* Two groups that match 2 fields, of equal volume: the earlier one is kept.
C16_Witness ==
    /\ InLoop
    /\ Len(scored) = 2
    /\ scored[1].m = 2
    /\ scored[2].m = 2
    /\ Volume(2) = Volume(1)
    /\ candidate_volume = <<scored[1].inst_id, Volume(1)>>

\* A group that matches 1 field after one that matches 2 is passed over, and
\* one that matches 2 after one that matches 1 takes over.
C16_WitnessLowerAndHigher ==
    /\ InLoop
    /\ Len(scored) = 3
    /\ scored[1].m = 1
    /\ scored[2].m = 2
    /\ scored[3].m = 1
    /\ Volume(3) >= Volume(2)
    /\ candidate_volume = <<scored[2].inst_id, Volume(2)>>

\* The warning of lines 346-353 for a final answer of k matching fields.
PartialWarning(k) == IF k = 1 THEN "only one value" ELSE "only two values"

\* C17: whatever the order of the groups, the "multiple contracts" warning is
\* printed when two or more groups match at least 3 fields, the partial-match
\* warning when the final answer has best match count 1 or 2, and the day's
\* file is written all the same.
C17_AnomalyWarnings ==
    /\ (DaySelected \/ DayWritten) =>
          /\ Cardinality(Matching(3) \cup Matching(4)) >= 2 =>
                Line(Cur.date, "multiple contracts", <<>>) \in log
          /\ max_ohlc \in {1, 2} =>
                \E l \in log : l.date = DateStr(ReconDate)
                               /\ l.msg = PartialWarning(max_ohlc)
    /\ (pc = "done" /\ Len(scored) > 0) => DateStr(ReconDate) \in DOMAIN output_folder

\* A group that matches 3 fields was visited before an exact match: the day
\* is selected without the warning.
C17_WitnessNoWarning ==
    /\ DaySelected
    /\ Len(scored) = 2
    /\ scored[1].m = 3
    /\ scored[2].m = 4
    /\ Line(Cur.date, "multiple contracts", <<>>) \notin log

(***************************************************************************)
(* Further claims on the batch                                             *)
(***************************************************************************)
\* C18: over any days and groups, candidate_volume[1] is not None when a
\* volume is compared with it, and saved_info_1 (saved_info_2) read because
\* max_ohlc is 1 (2) was assigned in the current day's loop and is the OHLCV
\* of the day's final candidate, not of an earlier group or day.
C18_NoUnsetTracking ==
    /\ error \notin {"TypeError", "UnboundLocalError"}
    /\ (pc = "write" /\ max_ohlc \in {1, 2}) =>
          LET saved == IF max_ohlc = 1 THEN saved_info_1 ELSE saved_info_2
          IN  /\ saved # <<>>
              /\ \E i \in 1..Len(scored) :
                    /\ scored[i].inst_id = candidate_volume[1]
                    /\ scored[i].info = saved
                    /\ scored[i].info[5] = candidate_volume[2]
              /\ Line(Cur.date, PartialWarning(max_ohlc), saved) \in log

\* The second day ends on one matching field, its second group having taken
\* over from the first, while saved_info_1 was last assigned the day before.
C18_Witness ==
    /\ pc = "write"
    /\ row = 2
    /\ max_ohlc = 1
    /\ Len(scored) = 2
    /\ candidate_volume[1] = scored[2].inst_id
    /\ saved_info_1 = scored[2].info
    /\ saved_info_2 # <<>>
    /\ \E l \in log : l.date # DateStr(Cur.date) /\ l.msg = "only two values"

(***************************************************************************)
(* uniform_time_column over a folder, its process ended and started again  *)
(***************************************************************************)
Name_a_csv == <<"a", ".", "c", "s", "v">>
Name_b_csv == <<"b", ".", "c", "s", "v">>

\* filename.endswith(suffix)
EndsWith(filename, suffix) ==
    /\ Len(filename) >= Len(suffix)
    /\ SubSeq(filename, Len(filename) - Len(suffix) + 1, Len(filename)) = suffix

\* A rewrite that writes to the file's own path.
TempFileInPlace(file_path) == file_path

\* temp_file = file_path + '.tmp'
TempFile(file_path) == file_path \o <<".", "t", "m", "p">>

\* A ts_event value: nanoseconds since the epoch, a missing value, or the
\* ISO 8601 string of an instant.
Ns(t) == [kind |-> "ns", t |-> t]
NaN == [kind |-> "nan", t |-> 0]
Iso(t) == [kind |-> "iso", t |-> t]

\* pd.api.types.is_object_dtype(ts_col): strings, or a column without rows;
\* numbers with or without missing values are int64 or float64.
IsObjectDtype(rows) == rows = <<>> \/ \E i \in 1..Len(rows) : rows[i].kind = "iso"

\* Lines 51-62: the instants as strings, NaN where the conversion gave NaT.
Convert(rows) ==
    [i \in 1..Len(rows) |-> IF rows[i].kind = "ns" THEN Iso(rows[i].t) ELSE NaN]

\* The contents a csv file of the folder starts with.
CsvContents ==
    { <<>>,
      <<Ns(1)>>,
      <<Ns(1), Ns(2)>>,
      <<Ns(2), NaN>>,
      <<Iso(1), Iso(2)>> }

\* The most calls of uniform_time_column on the folder.
MaxAttempts == 2

InitUniform ==
    /\ call = [fn |-> "uniform_time_column"]
    /\ ret = None
    /\ kept = {}
    /\ DriverIdle
    /\ source_folder \in [{Name_a_csv, Name_b_csv} -> CsvContents]
                            \cup [{Name_a_csv} -> CsvContents]
    /\ original = source_folder
    /\ attempt = 1
    /\ listing = <<>>
    /\ upc = "list"
    /\ new_df = <<>>

\* Line 37: os.listdir gives the names of the folder in any order.
ListDir ==
    /\ upc = "list"
    /\ listing' \in Orderings(FilenameList(source_folder))
    /\ upc' = "next"
    /\ UNCHANGED <<callVars, driverVars, source_folder, original, attempt, new_df>>

\* Lines 38-62: the next name: passed over unless it ends in .csv; read; left
\* alone if ts_event is of object dtype; else converted in memory.
NextFile ==
    /\ upc = "next"
    /\ listing # <<>>
    /\ LET filename == Head(listing)
       IN  IF ~EndsWith(filename, <<".", "c", "s", "v">>)
              \/ IsObjectDtype(source_folder[filename])
           THEN /\ listing' = Tail(listing)
                /\ UNCHANGED <<upc, new_df>>
           ELSE /\ new_df' = Convert(source_folder[filename])
                /\ upc' = "open"
                /\ listing' = listing
    /\ UNCHANGED <<callVars, driverVars, source_folder, original, attempt>>

\* Line 67: to_csv opens temp_file for writing, which creates or empties it.
OpenTemp ==
    /\ upc = "open"
    /\ LET temp_file == TempFile(Head(listing))
       IN  source_folder' =
               [f \in DOMAIN source_folder \cup {temp_file} |->
                   IF f = temp_file THEN <<>> ELSE source_folder[f]]
    /\ upc' = "write"
    /\ UNCHANGED <<callVars, driverVars, original, attempt, listing, new_df>>

\* Line 67: to_csv writes the next row; after the last one the file is closed.
WriteRow ==
    /\ upc = "write"
    /\ LET temp_file == TempFile(Head(listing))
           written == Len(source_folder[temp_file])
       IN  /\ source_folder' =
                  [source_folder EXCEPT ![temp_file] = Append(@, new_df[written + 1])]
           /\ upc' = IF written + 1 = Len(new_df) THEN "rename" ELSE "write"
    /\ UNCHANGED <<callVars, driverVars, original, attempt, listing, new_df>>

\* Line 72: os.rename(temp_file, file_path) puts the new file at file_path in
\* one step.
Rename ==
    /\ upc = "rename"
    /\ LET file_path == Head(listing)
           temp_file == TempFile(file_path)
       IN  source_folder' =
               [f \in (DOMAIN source_folder \ {temp_file}) \cup {file_path} |->
                   IF f = file_path THEN source_folder[temp_file]
                   ELSE source_folder[f]]
    /\ listing' = Tail(listing)
    /\ upc' = "next"
    /\ new_df' = <<>>
    /\ UNCHANGED <<callVars, driverVars, original, attempt>>

\* The for loop is exhausted: the call returns.
Return ==
    /\ upc = "next"
    /\ listing = <<>>
    /\ upc' = "done"
    /\ UNCHANGED <<callVars, driverVars, source_folder, original, attempt, listing,
                   new_df>>

\* The process ends between two steps: the folder stays, the locals are gone.
Crash ==
    /\ upc \in {"next", "open", "write", "rename"}
    /\ attempt < MaxAttempts
    /\ upc' = "crashed"
    /\ listing' = <<>>
    /\ new_df' = <<>>
    /\ UNCHANGED <<callVars, driverVars, source_folder, original, attempt>>

\* uniform_time_column is called again on the folder.
CallAgain ==
    /\ upc \in {"crashed", "done"}
    /\ attempt < MaxAttempts
    /\ attempt' = attempt + 1
    /\ upc' = "list"
    /\ UNCHANGED <<callVars, driverVars, source_folder, original, listing, new_df>>

NextUniform ==
    \/ ListDir
    \/ NextFile
    \/ OpenTemp
    \/ WriteRow
    \/ Rename
    \/ Return
    \/ Crash
    \/ CallAgain

SpecUniform == InitUniform /\ [][NextUniform]_vars

\* The name of a temporary file is in the folder.
Leftover(f) == f \in DOMAIN source_folder /\ EndsWith(f, <<".", "t", "m", "p">>)

\* C19: at every point of uniform_time_column, a crash between two steps
\* included, the path of a csv file holds the complete original content or
\* the complete converted content, and a later call does not take a leftover
\* .tmp file for an input file.
C19_AtomicRewrite ==
    /\ \A f \in DOMAIN original :
          /\ f \in DOMAIN source_folder
          /\ source_folder[f] \in {original[f], Convert(original[f])}
    /\ upc \in {"open", "write", "rename"} => Head(listing) \in DOMAIN original

\* The second call has listed the folder, a part-written or complete .tmp file
\* of the first call in it, and has passed that name over.
C19_Witness ==
    /\ attempt = 2
    /\ upc \in {"next", "done"}
    /\ \E f \in DOMAIN original :
          /\ source_folder[f] = original[f]
          /\ original[f] # Convert(original[f])
          /\ Leftover(TempFile(f))
          /\ source_folder[TempFile(f)] # Convert(original[f])
          /\ TempFile(f) \notin Range(listing)
          /\ f \in Range(listing)

(***************************************************************************)
(* Claims on the batch: the windows of different days                      *)
(***************************************************************************)
\* The days around the changes to and from daylight time of 2018.
TransitionDates ==
    {Ordinal(2018, 3, 10), Ordinal(2018, 3, 11), Ordinal(2018, 3, 12),
     Ordinal(2018, 11, 3), Ordinal(2018, 11, 4), Ordinal(2018, 11, 5)}

\* The accepted dates of the reference file.
ReferenceDates ==
    {reference_df[i].date : i \in 1..Len(reference_df)} \cap Dates

\* The rows of the files of the input folder.
RawRecords ==
    UNION {Range(input_folder[f].rows) : f \in DOMAIN input_folder}

\* The window of each of the dates.
Windows(dates) == [d \in dates |-> get_utc_start_end(d)]

\* The extraction filter of lines 267-268 on a record and a window.
Contains(window, record) ==
    record.ts_event >= window.start /\ record.ts_event < window.end

\* C20: the windows get_utc_start_end gives for two different dates do not
\* overlap, across the changes of daylight time too, so the extraction filter
\* gives a raw record to at most one reference date and no record is in the
\* output files of two dates; a second reference row of the same date never
\* rewrites the file of the first.
C20_DisjointDayWindows ==
    [][LET w == Windows(ReferenceDates \cup TransitionDates)
       IN  /\ \A d1, d2 \in DOMAIN w :
                 /\ w[d1].start < w[d1].end
                 /\ d1 < d2 => w[d1].end <= w[d2].start
           /\ \A record \in RawRecords :
                 Cardinality({d \in ReferenceDates : Contains(w[d], record)}) <= 1
           /\ \A d1, d2 \in DOMAIN output_folder' :
                 d1 # d2 =>
                     Range(output_folder'[d1]) \cap Range(output_folder'[d2]) = {}
           /\ \A d \in DOMAIN output_folder :
                 d \in DOMAIN output_folder' /\ output_folder'[d] = output_folder[d]]_vars

\* A reference file with the same date twice and another date has been gone
\* through: two files, one write for each.
C20_Witness ==
    /\ pc = "done"
    /\ run = 1
    /\ Len(reference_df) = 3
    /\ reference_df[1].date = reference_df[2].date
    /\ reference_df[3].date # reference_df[1].date
    /\ Cardinality(DOMAIN output_folder) = 2
    /\ \A d \in DOMAIN output_folder : output_folder[d] # <<>>

====
